---- MODULE Spec2Model ----
(***************************************************************************)
(* Metropolis Monte Carlo engine of a Lennard-Jones fluid (src/src/main.rs) *)
(* and its surface-tension analyzer (src/src/surface_tension.rs), each      *)
(* modelled as a state machine.                                            *)
(*                                                                         *)
(* Reals are modelled exactly where the claims need it and on a lattice    *)
(* elsewhere:                                                              *)
(*   - coordinates live on the integer lattice 0 .. l-1 of each axis (one  *)
(*     lattice cell = sigma); a real offset is rounded to the nearest cell;*)
(*   - the trial displacement is an exact rational [n, d];                 *)
(*   - energies and virials are integers (fixed point, EScale per epsilon);*)
(*   - a uniform draw of [0,1) is g / GenDen for g in 0 .. GenDen-1.       *)
(* The step intervals of the source (5000, 10000) are divided by Shrink so *)
(* that a run crosses several of them.                                     *)
(***************************************************************************)
EXTENDS Integers, Sequences, FiniteSets, TLC

VARIABLES
    pc,               \* "setup" | "loop" | "done": position in main()
    eq_steps, sample_steps, num_particles, cutoff_squared,
    SCALE, TAILCORR, SHIFT, output_interval, output_minim, vacuum_slab,
    l_z,              \* box edge along z (length until the slab rescales it)
    rx, ry, rz,       \* particle coordinates, index 1 .. num_particles
    energy, virial,   \* incrementally tracked totals
    energy_sum, virial_sum, step_counter, accept_counter,
    displacement,     \* rational [n |-> , d |-> ]
    step,             \* loop index of the next trial step
    \* observation of what each loop iteration did (not program state)
    outcome,          \* "none" | "accepted" | "rejected": last trial move
    resynced,         \* last iteration recomputed the totals from scratch
    did_reset,        \* last iteration performed the phase reset
    did_scale,        \* last iteration was a displacement-scaling checkpoint
    proposal,         \* dE of the last proposed move, and whether it is a NaN
    scale_window,     \* counters the latest scaling decision was taken on
    before_reset,     \* snapshot taken right before the latest phase reset
    resets,           \* number of phase resets so far
    reset_after,      \* trial steps executed when the latest reset happened
    eq_report,        \* latest equilibration progress line (acceptance)
    final_report,     \* the final report (acceptance, tries, accepted)
    frames,           \* trajectory frames written, in order
    \* surface-tension analyzer (src/src/surface_tension.rs)
    apc,              \* "off" | "open" | "frames" | "end": position in main()
    trj,              \* the trajectory file: a pattern of frames and a length
    skip,             \* number of leading frames to skip
    frame_no,         \* index in the file of the frame held in `frame`
    frame,            \* the frame being analyzed
    frame_count, p_xy_sum, p_z_sum,
    report,           \* the latest line of running averages printed
    reports,          \* number of lines of running averages printed
    history,          \* per-frame pressures of every frame analyzed, in order
    separations       \* calls of get_distance_with_pbc made for the last frame

vars == << pc, eq_steps, sample_steps, num_particles, cutoff_squared,
           SCALE, TAILCORR, SHIFT,
           output_interval, output_minim, vacuum_slab, l_z, rx, ry, rz,
           energy, virial, energy_sum, virial_sum, step_counter,
           accept_counter, displacement, step, outcome, resynced, did_reset,
           did_scale, proposal, scale_window, before_reset, resets, reset_after, eq_report,
           final_report, frames, apc, trj, skip, frame_no, frame, frame_count,
           p_xy_sum, p_z_sum, report, reports, history, separations >>

analyzer == << apc, trj, skip, frame_no, frame, frame_count, p_xy_sum,
               p_z_sum, report, reports, history, separations >>

engine == << pc, eq_steps, sample_steps, num_particles, cutoff_squared,
             SCALE, TAILCORR, SHIFT,
             output_interval, output_minim, vacuum_slab, l_z, rx, ry, rz,
             energy, virial, energy_sum, virial_sum, step_counter,
             accept_counter, displacement, step, outcome, resynced, did_reset,
             did_scale, proposal, scale_window, before_reset, resets, reset_after, eq_report,
             final_report, frames >>

--------------------------------------------------------------------------
(* Bounds of the model *)

BoxLen == 4
GenDen == 4
MaxEq == 5
MaxSample == 3
MaxVacuum == 1
Shrink == 2500
EScale == 16
DispSteps == 5
PScale == 64
MaxFrames == 21
PatternLen == 2

(* Program constants *)

TRIES_INTENDED == 3
DISP_SCALE_DEN == 10
TOLERANCE_DEN == 5
REPORT_INTERVAL == 10

SCALE_INTERVAL == 5000 \div Shrink
RESYNC_INTERVAL == 10000 \div Shrink
EQUILIBRATION_OUTPUT_INTERVAL == 5000 \div Shrink

Particles == 1 .. num_particles
Draws == 0 .. (GenDen - 1)

--------------------------------------------------------------------------
(* Rationals *)

RECURSIVE GCD(_, _)
GCD(a, b) == IF b = 0 THEN a ELSE GCD(b, a % b)

Abs(a) == IF a < 0 THEN -a ELSE a

Rat(n, d) ==
    LET g == GCD(Abs(n), Abs(d))
    IN  IF g = 0 THEN [n |-> n, d |-> d]
        ELSE [n |-> n \div g, d |-> d \div g]

RatLess(p, q) == p.n * q.d < q.n * p.d

RatLeq(p, q) == p.n * q.d <= q.n * p.d

RatMul(p, q) == Rat(p.n * q.n, p.d * q.d)

RatDiv(p, q) == Rat(p.n * q.d, p.d * q.n)

\* sums over the least common denominator, to keep the integers small
RatAdd(p, q) ==
    LET g == GCD(Abs(p.d), Abs(q.d))
    IN  IF g = 0 THEN Rat(p.n * q.d + q.n * p.d, p.d * q.d)
        ELSE Rat(p.n * (q.d \div g) + q.n * (p.d \div g), (p.d \div g) * q.d)

RatSub(p, q) == RatAdd(p, [n |-> -q.n, d |-> q.d])

RatAbs(p) == [n |-> Abs(p.n), d |-> Abs(p.d)]

RatInt(k) == [n |-> k, d |-> 1]

--------------------------------------------------------------------------
(* Periodic geometry and potential model.  energy.rs is not part of the   *)
(* available sources; these follow sections 4.1 and 4.2 of the             *)
(* specification.                                                          *)

\* minimum-image signed separation on one axis
MinImage(x1, x2, l) ==
    LET d == x1 - x2
    IN  IF 2 * d > l THEN d - l
        ELSE IF 2 * d < -l THEN d + l
        ELSE d

DistanceSquared(X, Y, Z, i, j, lz) ==
    LET dx == MinImage(X[i], X[j], BoxLen)
        dy == MinImage(Y[i], Y[j], BoxLen)
        dz == MinImage(Z[i], Z[j], lz)
    IN  dx * dx + dy * dy + dz * dz

\* 4 eps [ (sigma/r)^12 - (sigma/r)^6 ], r^2 = r2 >= 1, in units of 1/EScale
LJEnergy(r2) == (4 * EScale * (1 - r2 * r2 * r2)) \div (r2 * r2 * r2 * r2 * r2 * r2)

\* 24 eps [ 2 (sigma/r)^12 - (sigma/r)^6 ]
LJVirial(r2) == (24 * EScale * (2 - r2 * r2 * r2)) \div (r2 * r2 * r2 * r2 * r2 * r2)

\* a vanishing separation has no finite energy (the float is NaN): Overlaps
\* flags it and the value given here is never used
PairEnergy(r2, shift) ==
    IF r2 > cutoff_squared \/ r2 = 0 THEN 0 ELSE LJEnergy(r2) - shift

PairVirial(r2) == IF r2 > cutoff_squared \/ r2 = 0 THEN 0 ELSE LJVirial(r2)

Overlaps(X, Y, Z, i, lz) ==
    \E j \in Particles \ {i} : DistanceSquared(X, Y, Z, i, j, lz) = 0

RECURSIVE SumOver(_, _)
SumOver(f, S) ==
    IF S = {} THEN 0
    ELSE LET k == CHOOSE k \in S : TRUE IN f[k] + SumOver(f, S \ {k})

\* particleEnergy: every other particle, self excluded
ParticleEnergy(X, Y, Z, i, lz, shift) ==
    LET others == Particles \ {i}
        e == [j \in others |-> PairEnergy(DistanceSquared(X, Y, Z, i, j, lz), shift)]
        v == [j \in others |-> PairVirial(DistanceSquared(X, Y, Z, i, j, lz))]
    IN  [e |-> SumOver(e, others), v |-> SumOver(v, others),
         nan |-> Overlaps(X, Y, Z, i, lz)]

UniquePairs == {p \in Particles \X Particles : p[1] < p[2]}

\* totalEnergy: every unique pair once, plus the tail correction per particle
TotalEnergy(X, Y, Z, lz, ecorr, shift) ==
    LET e == [p \in UniquePairs |->
                 PairEnergy(DistanceSquared(X, Y, Z, p[1], p[2], lz), shift)]
        v == [p \in UniquePairs |->
                 PairVirial(DistanceSquared(X, Y, Z, p[1], p[2], lz))]
    IN  [e |-> SumOver(e, UniquePairs) + num_particles * ecorr,
         v |-> SumOver(v, UniquePairs)]

--------------------------------------------------------------------------
(* Derived run parameters (main.rs 76-115) *)

\* max_displacement = length / 2
MaxDisplacement == [n |-> BoxLen, d |-> 2]

EShift(shift) == IF shift THEN LJEnergy(cutoff_squared) ELSE 0

\* the closed form involves pi; only its being a run constant matters here
ECorr(tailcorr) == IF tailcorr THEN -(EScale \div 8) ELSE 0

--------------------------------------------------------------------------
(* One trial step (main.rs 146-250), stage by stage.  A stage maps the     *)
(* record of the mutable simulation state to its next value.               *)

SimState ==
    [rx |-> rx, ry |-> ry, rz |-> rz, energy |-> energy, virial |-> virial,
     energy_sum |-> energy_sum, virial_sum |-> virial_sum,
     step_counter |-> step_counter, accept_counter |-> accept_counter,
     displacement |-> displacement]

\* (gen - 0.5) * displacement, rounded to the nearest lattice cell
Offset(g, disp) ==
    ((2 * g - GenDen) * disp.n + GenDen * disp.d) \div (2 * GenDen * disp.d)

\* mutant of WrapCoord: the upper wrap is missing
WrapCoordLowerOnly(x, l) == IF x < 0 THEN x + l ELSE x

\* if r < 0 { r += l }  if r >= l { r -= l }
WrapCoord(x, l) ==
    LET a == IF x < 0 THEN x + l ELSE x
    IN  IF a >= l THEN a - l ELSE a

\* lines 159-168: displace particle i and apply the periodic boundary
Displaced(st, i, gx, gy, gz, lz) ==
    [st EXCEPT !.rx[i] = WrapCoord(@ + Offset(gx, st.displacement), BoxLen),
               !.ry[i] = WrapCoord(@ + Offset(gy, st.displacement), BoxLen),
               !.rz[i] = WrapCoord(@ + Offset(gz, st.displacement), lz)]

\* mutant of Boltzmann: a vanishing energy change is weighted like a rise
BoltzmannStrict(dE) == IF dE < 0 THEN GenDen ELSE 1

\* exp(-beta dE) on the lattice of draws: 1 for dE = 0, the lowest non-zero
\* level for dE > 0
Boltzmann(dE) == IF dE <= 0 THEN GenDen ELSE 1

\* line 176: dE < 0.0 || rng.gen() < exp(-beta dE); every comparison with a
\* NaN is false
Accepts(dE, nan, u) == ~nan /\ (dE < 0 \/ u < Boltzmann(dE))

\* line 182: the resync sits inside the acceptance branch
ResyncDue(s, accepted) == accepted /\ s % RESYNC_INTERVAL = 0

\* mutant of AcceptMove: the virial is not updated
AcceptMoveEnergyOnly(st, old, new) ==
    [st EXCEPT !.accept_counter = @ + 1,
               !.energy = @ + (new.e - old.e)]

\* lines 177-179
AcceptMove(st, old, new) ==
    [st EXCEPT !.accept_counter = @ + 1,
               !.energy = @ + (new.e - old.e),
               !.virial = @ + (new.v - old.v)]

\* lines 183-185
Resync(st, lz, ecorr, shift) ==
    LET t == TotalEnergy(st.rx, st.ry, st.rz, lz, ecorr, shift)
    IN  [st EXCEPT !.energy = t.e, !.virial = t.v]

\* mutant of RejectMove: rz is not restored
RejectMoveKeepZ(moved, st, i) ==
    [moved EXCEPT !.rx[i] = st.rx[i], !.ry[i] = st.ry[i]]

\* lines 189-191
RejectMove(moved, st, i) ==
    [moved EXCEPT !.rx[i] = st.rx[i], !.ry[i] = st.ry[i], !.rz[i] = st.rz[i]]

\* lines 173-192: accept or reject the displaced configuration `moved`
Metropolis(st, moved, s, i, old, new, u, lz, ecorr, shift) ==
    IF Accepts(new.e - old.e, new.nan, u)
    THEN [accepted |-> TRUE,
          resynced |-> ResyncDue(s, TRUE),
          st |-> IF ResyncDue(s, TRUE)
                 THEN Resync(AcceptMove(moved, old, new), lz, ecorr, shift)
                 ELSE AcceptMove(moved, old, new)]
    ELSE [accepted |-> FALSE,
          resynced |-> ResyncDue(s, FALSE),
          st |-> RejectMove(moved, st, i)]

\* mutant of Accumulate: the virial is left out of the running sums
AccumulateEnergyOnly(st) ==
    [st EXCEPT !.step_counter = @ + 1,
               !.energy_sum = @ + st.energy]

\* lines 194-197
Accumulate(st) ==
    [st EXCEPT !.step_counter = @ + 1,
               !.energy_sum = @ + st.energy,
               !.virial_sum = @ + st.virial]

\* mutant of PhaseResetDue: every step from the boundary on resets
PhaseResetDueFrom(s, eq) == s >= eq

\* line 200
PhaseResetDue(s, eq) == s = eq

\* mutant of PhaseReset: the tracked totals are cleared as well
PhaseResetTotals(st) ==
    [st EXCEPT !.step_counter = 0, !.accept_counter = 0,
               !.energy_sum = 0, !.virial_sum = 0,
               !.energy = 0, !.virial = 0]

\* lines 206-209
PhaseReset(st) ==
    [st EXCEPT !.step_counter = 0, !.accept_counter = 0,
               !.energy_sum = 0, !.virial_sum = 0]

\* line 215
EqReportDue(s, eq, sc) ==
    s < eq /\ sc % EQUILIBRATION_OUTPUT_INTERVAL = 0 /\ s # 0

\* lines 216-217: the acceptance rate of the progress line
EqAcceptanceRate(sc, ac) ==
    LET tries_per_step == RatDiv(RatInt(sc), RatInt(ac))
    IN  RatMul(RatDiv(RatInt(1), tries_per_step), RatInt(100))

\* mutant of ScaleDue: the controller is not confined to the equilibration
ScaleDueAnyPhase(s, eq, scale) == scale /\ s % SCALE_INTERVAL = 0

\* line 224
ScaleDue(s, eq, scale) == scale /\ s < eq /\ s % SCALE_INTERVAL = 0

\* mutant of ScaledDisplacement: accepted per try instead of tries per accepted
ScaledDisplacementInverted(disp, sc, ac) ==
    LET tries_per_step == RatDiv(RatInt(ac), RatInt(sc))
        scale_factor ==
            RatAbs(RatMul(RatDiv(RatInt(TRIES_INTENDED), tries_per_step),
                          [n |-> 1, d |-> DISP_SCALE_DEN]))
        low  == RatSub(RatInt(TRIES_INTENDED), [n |-> 1, d |-> TOLERANCE_DEN])
        high == RatAdd(RatInt(TRIES_INTENDED), [n |-> 1, d |-> TOLERANCE_DEN])
    IN  IF RatLess(tries_per_step, low) /\ RatLess(disp, MaxDisplacement)
        THEN RatAdd(disp, RatMul(disp, scale_factor))
        ELSE IF RatLess(high, tries_per_step) /\ RatLess(RatInt(0), disp)
        THEN RatSub(disp, RatMul(disp, scale_factor))
        ELSE disp

\* lines 225-233
ScaledDisplacement(disp, sc, ac) ==
    LET tries_per_step == RatDiv(RatInt(sc), RatInt(ac))
        scale_factor ==
            RatAbs(RatMul(RatDiv(RatInt(TRIES_INTENDED), tries_per_step),
                          [n |-> 1, d |-> DISP_SCALE_DEN]))
        low  == RatSub(RatInt(TRIES_INTENDED), [n |-> 1, d |-> TOLERANCE_DEN])
        high == RatAdd(RatInt(TRIES_INTENDED), [n |-> 1, d |-> TOLERANCE_DEN])
    IN  IF RatLess(tries_per_step, low) /\ RatLess(disp, MaxDisplacement)
        THEN RatAdd(disp, RatMul(disp, scale_factor))
        ELSE IF RatLess(high, tries_per_step) /\ RatLess(RatInt(0), disp)
        THEN RatSub(disp, RatMul(disp, scale_factor))
        ELSE disp

\* lines 225-236
ScaleCheckpoint(st) ==
    [st EXCEPT !.displacement =
                   ScaledDisplacement(@, st.step_counter, st.accept_counter),
               !.step_counter = 0, !.accept_counter = 0, !.energy_sum = 0]

\* Rust's % on a non-negative dividend.  b # 0: with output_interval = 0
\* the remainder aborts the run in its first trial step; that value is not
\* among the configurations explored
RustRem(a, b) == a % Abs(b)

\* mutant of FrameDue: the phase and the flag are not looked at
FrameDueAnyPhase(s, eq, interval, minim) == RustRem(s, interval) = 0

\* lines 245-246
FrameDue(s, eq, interval, minim) ==
    RustRem(s, interval) = 0 /\ (s > eq \/ minim)

\* line 260
FinalAcceptanceRate(sc, ac) ==
    RatMul(RatDiv(RatInt(1), RatDiv(RatInt(ac), RatInt(sc))), RatInt(100))

--------------------------------------------------------------------------
(* Initial state: the run parameters after parse_cmd_args and the random   *)
(* placement of the particles (main.rs 44-98).                             *)

\* the analyzer is a separate program: it does not run in an engine run
NoFrame == [rx |-> << >>, ry |-> << >>, rz |-> << >>, box_z |-> 0,
            temperature |-> 0]

NoAverages == [shown |-> FALSE, frame |-> 0,
               zz |-> [n |-> 0, d |-> 1], xy |-> [n |-> 0, d |-> 1],
               difference |-> [n |-> 0, d |-> 1],
               tension |-> [n |-> 0, d |-> 1]]

AnalyzerOff ==
    /\ apc = "off"
    /\ trj = [pattern |-> << >>, len |-> 0]
    /\ skip = 0 /\ frame_no = 0 /\ frame = NoFrame
    /\ frame_count = 0 /\ p_xy_sum = 0 /\ p_z_sum = 0
    /\ report = NoAverages /\ reports = 0
    /\ history = << >> /\ separations = {}

NoReport == [shown |-> FALSE, tries |-> 0, accepted |-> 0,
             acceptance |-> [n |-> 0, d |-> 1]]

\* l * rng.gen(): the lattice cell that holds the point
Placed(g, l) == (l * g) \div GenDen

\* initial displacements in (0, length/2]: small, just below the ceiling, the ceiling
InitDisplacements ==
    {Rat(BoxLen * k, 2 * DispSteps) : k \in {1, DispSteps - 1, DispSteps}}

\* the draws that place the particles: the first particle in the cell at
\* the origin, the others in corner cells of the box
PlaceDraws ==
    {g \in [Particles -> {0, GenDen - 1}] : g[1] = 0}

NoOverlap(X, Y, Z) ==
    \A i, j \in Particles :
        i # j => ~(X[i] = X[j] /\ Y[i] = Y[j] /\ Z[i] = Z[j])

InitWith(EqSet, SampleSet, ScaleSet, CorrSet, IntervalSet, MinimSet, VacuumSet, DispSet, CountSet, CutoffSet) ==
    /\ pc = "setup"
    /\ eq_steps \in EqSet
    /\ sample_steps \in SampleSet
    /\ num_particles \in CountSet
    /\ cutoff_squared \in CutoffSet
    /\ SCALE \in ScaleSet
    /\ TAILCORR \in CorrSet
    /\ SHIFT \in CorrSet
    /\ output_interval \in IntervalSet
    /\ output_minim \in MinimSet
    /\ vacuum_slab \in VacuumSet
    /\ displacement \in DispSet
    /\ l_z = BoxLen
    /\ \E gx, gy, gz \in PlaceDraws :
           /\ rx = [i \in Particles |-> Placed(gx[i], BoxLen)]
           /\ ry = [i \in Particles |-> Placed(gy[i], BoxLen)]
           /\ rz = [i \in Particles |-> Placed(gz[i], BoxLen)]
    /\ NoOverlap(rx, ry, rz)
    /\ energy = 0 /\ virial = 0
    /\ energy_sum = 0 /\ virial_sum = 0
    /\ step_counter = 0 /\ accept_counter = 0
    /\ step = 0
    /\ outcome = "none"
    /\ resynced = FALSE /\ did_reset = FALSE /\ did_scale = FALSE
    /\ proposal = [dE |-> 0, nan |-> FALSE]
    /\ scale_window = [tries |-> 0, accepted |-> 0]
    /\ before_reset = SimState
    /\ resets = 0 /\ reset_after = 0
    /\ eq_report = NoReport /\ final_report = NoReport
    /\ frames = << >>
    /\ AnalyzerOff

config == << eq_steps, sample_steps, num_particles, cutoff_squared, SCALE, TAILCORR, SHIFT, output_interval,
             output_minim, vacuum_slab >>

observed == << outcome, resynced, did_reset, did_scale, proposal, scale_window, before_reset, resets,
               reset_after >>

--------------------------------------------------------------------------
(* Actions *)

\* lines 100-110: the slab's shift of every particle along z
SlabShift(z, v) == z + (BoxLen * v) \div 2

\* main.rs 100-133: vacuum slab, initial totals, first trajectory frame
SetupSystem ==
    /\ pc = "setup"
    /\ pc' = "loop"
    /\ l_z' = IF vacuum_slab > 0 THEN l_z * (vacuum_slab + 1) ELSE l_z
    /\ rz' = IF vacuum_slab > 0
              THEN [i \in Particles |-> SlabShift(rz[i], vacuum_slab)]
              ELSE rz
    /\ LET t == TotalEnergy(rx, ry, rz', l_z', ECorr(TAILCORR), EShift(SHIFT))
       IN  energy' = t.e /\ virial' = t.v
    /\ frames' = IF output_minim
                  THEN Append(frames, [kind |-> "first", at |-> 0])
                  ELSE frames
    /\ UNCHANGED << config, rx, ry, energy_sum, virial_sum, step_counter,
                    accept_counter, displacement, step, observed, eq_report,
                    final_report, analyzer >>

\* main.rs 146-250: one iteration of the Metropolis loop.  Each stage's
\* result is bound once (\E over a singleton) and handed to the next stage.
\* MoveDraws and AcceptDraws are the values the random source may return
\* for the three offsets and for the acceptance test.
TrialStep(MoveDraws, AcceptDraws) ==
    /\ pc = "loop"
    /\ step < eq_steps + sample_steps
    /\ \E i \in Particles :
       \E old \in {ParticleEnergy(rx, ry, rz, i, l_z, EShift(SHIFT))} :
       \E gx, gy, gz \in MoveDraws :
       \E moved \in {Displaced(SimState, i, gx, gy, gz, l_z)} :
       \E new \in {ParticleEnergy(moved.rx, moved.ry, moved.rz, i, l_z,
                                  EShift(SHIFT))} :
       \E u \in AcceptDraws :
       \E m \in {Metropolis(SimState, moved, step, i, old, new, u, l_z,
                             ECorr(TAILCORR), EShift(SHIFT))} :
       \E s2 \in {Accumulate(m.st)} :
       \E s3 \in {IF PhaseResetDue(step, eq_steps) THEN PhaseReset(s2) ELSE s2} :
       \E s4 \in {IF ScaleDue(step, eq_steps, SCALE)
                   THEN ScaleCheckpoint(s3) ELSE s3} :
         /\ rx' = s4.rx /\ ry' = s4.ry /\ rz' = s4.rz
         /\ energy' = s4.energy /\ virial' = s4.virial
         /\ energy_sum' = s4.energy_sum /\ virial_sum' = s4.virial_sum
         /\ step_counter' = s4.step_counter
         /\ accept_counter' = s4.accept_counter
         /\ displacement' = s4.displacement
         /\ outcome' = IF m.accepted THEN "accepted" ELSE "rejected"
         /\ resynced' = m.resynced
         /\ proposal' = [dE |-> new.e - old.e, nan |-> new.nan]
         /\ scale_window' =
               IF ScaleDue(step, eq_steps, SCALE)
               THEN [tries |-> s3.step_counter, accepted |-> s3.accept_counter]
               ELSE scale_window
         /\ before_reset' = IF PhaseResetDue(step, eq_steps)
                            THEN s2 ELSE before_reset
         /\ eq_report' =
               IF EqReportDue(step, eq_steps, s3.step_counter)
               THEN [shown |-> TRUE, tries |-> s3.step_counter,
                     accepted |-> s3.accept_counter,
                     acceptance |-> EqAcceptanceRate(s3.step_counter,
                                                     s3.accept_counter)]
               ELSE eq_report
    /\ did_reset' = PhaseResetDue(step, eq_steps)
    /\ did_scale' = ScaleDue(step, eq_steps, SCALE)
    /\ resets' = IF PhaseResetDue(step, eq_steps) THEN resets + 1 ELSE resets
    /\ reset_after' = IF PhaseResetDue(step, eq_steps)
                       THEN step + 1 ELSE reset_after
    /\ frames' = IF FrameDue(step, eq_steps, output_interval, output_minim)
                  THEN Append(frames, [kind |-> "loop", at |-> step])
                  ELSE frames
    /\ step' = step + 1
    /\ UNCHANGED << pc, config, l_z, final_report, analyzer >>

\* main.rs 254-303: final report and last trajectory frame
Finish ==
    /\ pc = "loop"
    /\ step = eq_steps + sample_steps
    /\ pc' = "done"
    /\ final_report' =
          [shown |-> TRUE, tries |-> step_counter, accepted |-> accept_counter,
           acceptance |-> FinalAcceptanceRate(step_counter, accept_counter)]
    /\ frames' = Append(frames, [kind |-> "final", at |-> step])
    /\ UNCHANGED << config, l_z, rx, ry, rz, energy, virial, energy_sum,
                    virial_sum, step_counter, accept_counter, displacement,
                    step, observed, eq_report, analyzer >>

AcceptDraws == {0, GenDen - 1}

\* Spec: every run length and both scaling settings; every offset draw is
\* the lowest value of the source
Next == SetupSystem \/ TrialStep({0}, AcceptDraws) \/ Finish

Init ==
    InitWith(0 .. MaxEq, 0 .. MaxSample, BOOLEAN, {TRUE}, {1}, {FALSE},
             {0}, InitDisplacements, {2}, {3})

Spec == Init /\ [][Next]_vars

\* SpecLive: every run length, starting from the small displacement, with
\* the loop and the code after it always running on: nothing in main() blocks
InitLive ==
    InitWith(0 .. MaxEq, 0 .. MaxSample, BOOLEAN, {FALSE}, {1}, {FALSE},
             {0}, {Rat(BoxLen, 2 * DispSteps)}, {2}, {3})

\* every step of Next moves pc or step
Progress == pc' # pc \/ step' = step + 1

\* weak fairness of Next, written out: Next is enabled exactly while
\* pc # "done" (SetupSystem at "setup"; TrialStep or Finish at "loop")
SpecLive ==
    InitLive /\ [][Next]_vars
             /\ ([]<>(pc = "done") \/ []<><<Progress>>_vars)

\* SpecGeom: two trial steps with every offset draw, with and without slab
NextGeom == SetupSystem \/ TrialStep(Draws, AcceptDraws) \/ Finish

InitGeom ==
    InitWith({1}, {1}, {TRUE}, {TRUE}, {1}, {FALSE},
             0 .. MaxVacuum, InitDisplacements, {2}, {3})

SpecGeom == InitGeom /\ [][NextGeom]_vars

\* SpecTriple: three particles, two trial steps, lowest and highest offset draws
NextTriple == SetupSystem \/ TrialStep({0, GenDen - 1}, AcceptDraws) \/ Finish

InitTriple ==
    InitWith({1}, {1}, {TRUE}, BOOLEAN, {1}, {FALSE},
             {0}, InitDisplacements, {3}, {3})

SpecTriple == InitTriple /\ [][NextTriple]_vars

\* SpecOut: every output setting and run length, scaling off
InitOut ==
    InitWith(0 .. MaxEq, 0 .. MaxSample, {FALSE}, {TRUE}, {-1, 1, 2}, BOOLEAN,
             {0}, {MaxDisplacement}, {2}, {3})

SpecOut == InitOut /\ [][Next]_vars

\* SpecFree: one or two particles without tail correction and shift, with
\* a vanishing cutoff (no pair within range) and with the usual one
InitFree ==
    InitWith(0 .. 2, 0 .. 1, BOOLEAN, {FALSE}, {1}, {FALSE},
             {0}, InitDisplacements, {1, 2}, {0, 3})

SpecFree == InitFree /\ [][NextTriple]_vars

--------------------------------------------------------------------------
(* Surface-tension analyzer (src/src/surface_tension.rs).  Pressures are   *)
(* integers in units of 1/PScale; running averages are exact rationals.    *)

\* lines 24-29; half_length is length / 2 at every call (lines 69-71)
get_distance_with_pbc(x1, x2, length) ==
    LET d == Abs(x1 - x2)
    IN  IF 2 * d > length THEN d - length
        ELSE IF 2 * d < -length THEN d + length
        ELSE d

\* lines 11-15 and the division by dist of lines 93-94:
\* get_virial(dist) / dist = 24 (r^-8 - 2 r^-14) = 24 (r2^3 - 2) / r2^7
VirialOverDistance(weight, r2) ==
    (weight * 24 * PScale * (r2 * r2 * r2 - 2))
        \div (r2 * r2 * r2 * r2 * r2 * r2 * r2)

\* lines 31-33
eval_surface_tension(box_z, p_zz, p_xy) ==
    RatMul([n |-> box_z, d |-> 2], RatSub(p_zz, p_xy))

FramePairs(f) ==
    {p \in (1 .. Len(f.rx)) \X (1 .. Len(f.rx)) : p[1] < p[2]}

\* lines 87-94 for one pair: the three separations and the two trace terms
PairTerms(f, p) ==
    LET r2 == DistanceSquared(f.rx, f.ry, f.rz, p[1], p[2], f.box_z)
        dx == get_distance_with_pbc(f.rx[p[1]], f.rx[p[2]], BoxLen)
        dy == get_distance_with_pbc(f.ry[p[1]], f.ry[p[2]], BoxLen)
        dz == get_distance_with_pbc(f.rz[p[1]], f.rz[p[2]], f.box_z)
    IN  [xy |-> VirialOverDistance(dx * dx + dy * dy, r2),
         z  |-> VirialOverDistance(dz * dz, r2),
         calls |-> {[x1 |-> f.rx[p[1]], x2 |-> f.rx[p[2]], length |-> BoxLen, d |-> dx],
                    [x1 |-> f.ry[p[1]], x2 |-> f.ry[p[2]], length |-> BoxLen, d |-> dy],
                    [x1 |-> f.rz[p[1]], x2 |-> f.rz[p[2]], length |-> f.box_z, d |-> dz]}]

\* lines 65-66 and 77
Volume(f) == BoxLen * BoxLen * f.box_z

IdealTerm(f) == (f.temperature * Len(f.rx)) \div Volume(f)

\* lines 83-98: the lateral and the normal pressure of one frame
FramePressure(f) ==
    LET terms == [p \in FramePairs(f) |-> PairTerms(f, p)]
        trace_xy == SumOver([p \in FramePairs(f) |-> terms[p].xy], FramePairs(f))
        trace_z  == SumOver([p \in FramePairs(f) |-> terms[p].z], FramePairs(f))
    IN  [p_xy |-> IdealTerm(f) - trace_xy \div (2 * Volume(f)),
         p_zz |-> IdealTerm(f) - trace_z \div Volume(f),
         calls |-> UNION {terms[p].calls : p \in FramePairs(f)}]

\* mutant of RunningAverage: the average of a window of REPORT_INTERVAL frames
WindowAverage(sum, count) == Rat(sum, REPORT_INTERVAL)

\* lines 105-106
RunningAverage(sum, count) == Rat(sum, count)

\* line 104
ReportDue(count) == count % REPORT_INTERVAL = 0

\* lines 105-109
Averages(count, xy_sum, z_sum, box_z) ==
    LET p_z_avg == RunningAverage(z_sum, count)
        p_xy_avg == RunningAverage(xy_sum, count)
    IN  [shown |-> TRUE, frame |-> count, zz |-> p_z_avg, xy |-> p_xy_avg,
         difference |-> RatSub(p_z_avg, p_xy_avg),
         tension |-> eval_surface_tension(box_z, p_z_avg, p_xy_avg)]

\* configurations of two particles a frame may hold
PairPool ==
    << << <<0, 0, 0>>, <<1, 0, 0>> >>,
       << <<BoxLen - 1, 0, 0>>, <<0, 0, 1>> >>,
       << <<1, 1, 1>>, <<0, 0, 0>> >>,
       << <<0, 1, 0>>, <<0, 0, 2>> >> >>

\* frame k of the file t: the file repeats its pattern
FileFrame(t, k) ==
    LET c == PairPool[t.pattern[((k - 1) % PatternLen) + 1]]
    IN  [rx |-> << c[1][1], c[2][1] >>, ry |-> << c[1][2], c[2][2] >>,
         rz |-> << c[1][3], c[2][3] >>, box_z |-> t.box_z,
         temperature |-> PScale]

Trajectories ==
    [pattern : [1 .. PatternLen -> 1 .. Len(PairPool)],
     len : 1 .. MaxFrames, box_z : {BoxLen, 2 * BoxLen}]

\* the engine is a separate program: it does not run in an analyzer run
EngineOff ==
    /\ pc = "off"
    /\ eq_steps = 0 /\ sample_steps = 0 /\ num_particles = 0
    /\ cutoff_squared = 0
    /\ SCALE = FALSE /\ TAILCORR = FALSE /\ SHIFT = FALSE
    /\ output_interval = 1 /\ output_minim = FALSE /\ vacuum_slab = 0
    /\ l_z = BoxLen
    /\ rx = << >> /\ ry = << >> /\ rz = << >>
    /\ energy = 0 /\ virial = 0 /\ energy_sum = 0 /\ virial_sum = 0
    /\ step_counter = 0 /\ accept_counter = 0
    /\ displacement = MaxDisplacement
    /\ step = 0 /\ outcome = "none"
    /\ resynced = FALSE /\ did_reset = FALSE /\ did_scale = FALSE
    /\ proposal = [dE |-> 0, nan |-> FALSE]
    /\ scale_window = [tries |-> 0, accepted |-> 0]
    /\ before_reset = SimState
    /\ resets = 0 /\ reset_after = 0
    /\ eq_report = NoReport /\ final_report = NoReport
    /\ frames = << >>

\* surface_tension.rs 45-55: the arguments name a file and a skip count
InitAnalyzer ==
    /\ EngineOff
    /\ apc = "open"
    /\ trj \in Trajectories
    /\ skip \in 0 .. 1
    /\ skip < trj.len
    /\ frame_no = 0 /\ frame = NoFrame
    /\ frame_count = 0 /\ p_xy_sum = 0 /\ p_z_sum = 0
    /\ report = NoAverages /\ reports = 0
    /\ history = << >> /\ separations = {}

\* surface_tension.rs 57-77: open the file, skip, read the first frame
OpenTrajectory ==
    /\ apc = "open"
    /\ apc' = "frames"
    /\ frame_no' = skip + 1
    /\ frame' = FileFrame(trj, skip + 1)
    /\ frame_count' = 0 /\ p_xy_sum' = 0 /\ p_z_sum' = 0
    /\ UNCHANGED << engine, trj, skip, report, reports, history, separations >>

\* surface_tension.rs 80-117: one iteration of the loop over the frames
ProcessFrame ==
    /\ apc = "frames"
    /\ \E p \in {FramePressure(frame)} :
       \E count \in {frame_count + 1} :
         /\ frame_count' = count
         /\ p_xy_sum' = p_xy_sum + p.p_xy
         /\ p_z_sum' = p_z_sum + p.p_zz
         /\ history' = Append(history, [p_xy |-> p.p_xy, p_zz |-> p.p_zz])
         /\ separations' = p.calls
         /\ IF ReportDue(count)
            THEN /\ report' = Averages(count, p_xy_sum', p_z_sum', frame.box_z)
                 /\ reports' = reports + 1
            ELSE UNCHANGED << report, reports >>
    /\ IF frame_no < trj.len
       THEN /\ frame_no' = frame_no + 1
            /\ frame' = FileFrame(trj, frame_no + 1)
            /\ apc' = apc
       ELSE /\ apc' = "end"
            /\ UNCHANGED << frame_no, frame >>
    /\ UNCHANGED << engine, trj, skip >>

NextAnalyzer == OpenTrajectory \/ ProcessFrame

SpecAnalyzer == InitAnalyzer /\ [][NextAnalyzer]_vars

--------------------------------------------------------------------------
(* Properties *)

\* index of the trial step executed last (meaningful once outcome # "none")
LastStep == step - 1

InBox(x, l) == 0 <= x /\ x < l

HasLoopFrame == \E k \in 1 .. Len(frames) : frames[k].kind = "loop"

\* C1: at every trial step whose index is a multiple of the resync
\* interval, the tracked totals are recomputed from scratch, whether the
\* move of that step was accepted or rejected.
C1_ResyncAtEveryInterval ==
    (outcome # "none" /\ LastStep % RESYNC_INTERVAL = 0) => resynced

\* C2: the phase reset happens exactly once per run, after exactly eq_steps
\* trial steps, so that at the end of the run the window step counter
\* equals sample_steps.
C2_ResetOnceAfterEquilibration ==
    pc = "done" =>
        /\ resets = 1
        /\ reset_after = eq_steps
        /\ step_counter = sample_steps

\* C3: right after the phase reset and right after every scaling
\* checkpoint, the step counter, the accepted counter, the energy sum and
\* the virial sum are all zero.
C3_WindowZeroAfterReset ==
    (did_reset \/ did_scale) =>
        /\ step_counter = 0
        /\ accept_counter = 0
        /\ energy_sum = 0
        /\ virial_sum = 0

\* C4: the trial displacement stays within (0, length/2].
C4_DisplacementInRange ==
    /\ RatLess(RatInt(0), displacement)
    /\ RatLeq(displacement, MaxDisplacement)

\* C5: after the random placement, after the slab relocation and after
\* every trial step, every coordinate of every particle lies in [0, l) of
\* its axis.
C5_CoordinatesInBox ==
    \A i \in Particles :
        InBox(rx[i], BoxLen) /\ InBox(ry[i], BoxLen) /\ InBox(rz[i], l_z)

\* a trial step was accepted in a slab system while the displacement in
\* use had been scaled above length/2
C5_Witness ==
    /\ pc = "loop" /\ step = 2 /\ outcome = "accepted"
    /\ vacuum_slab > 0
    /\ RatLess(MaxDisplacement, displacement)
    /\ \E i \in Particles : rx[i] = BoxLen - 1 \/ rz[i] = l_z - 1

\* C6: with output_interval = -1 and no recording of the equilibration, no
\* frame is written inside the loop and the whole run writes exactly one
\* frame, the final one.
C6_SentinelWritesOnlyFinalFrame ==
    (output_interval = -1 /\ ~output_minim) =>
        /\ ~HasLoopFrame
        /\ pc = "done" => frames = << [kind |-> "final", at |-> step] >>

ReportIsRate(r) ==
    (r.shown /\ 1 <= r.accepted /\ r.accepted <= r.tries) =>
        r.acceptance.n * r.tries = 100 * r.accepted * r.acceptance.d

\* C7: the acceptance rate of a progress line and of the final report is
\* 100 * accepted / tries of its window, whenever 1 <= accepted <= tries.
C7_ReportedAcceptanceRate ==
    ReportIsRate(eq_report) /\ ReportIsRate(final_report)

RejectedStep == pc = "loop" /\ step' = step + 1 /\ outcome' = "rejected"

ConfigurationKept ==
    /\ rx' = rx /\ ry' = ry /\ rz' = rz
    /\ energy' = energy /\ virial' = virial

\* C8 as stated: a rejected trial step leaves every coordinate, the total
\* energy, the total virial and the accepted counter as they were.
C8_RejectedStepChangesNothing ==
    [][RejectedStep => (ConfigurationKept /\ accept_counter' = accept_counter)]_vars

\* C8 as amended: a rejected trial step leaves every coordinate, the total
\* energy and the total virial as they were and does not count as accepted:
\* the accepted counter keeps its value, or is zero when that step is the
\* phase reset step or a scaling checkpoint.
C8_RejectedStepKeepsConfiguration ==
    [][RejectedStep =>
          /\ ConfigurationKept
          /\ accept_counter' =
                IF did_reset' \/ did_scale' THEN 0 ELSE accept_counter]_vars

\* a move was rejected in a window that already holds accepted moves
C8_Witness ==
    outcome = "rejected" /\ accept_counter > 0 /\ step_counter > accept_counter

\* C9: after every trial step the tracked total energy and virial equal the
\* totals computed from scratch over the current configuration.
C9_TrackedEqualsFromScratch ==
    pc # "setup" =>
        LET t == TotalEnergy(rx, ry, rz, l_z, ECorr(TAILCORR), EShift(SHIFT))
        IN  energy = t.e /\ virial = t.v

\* an accepted move changed the totals by the incremental update alone
C9_Witness ==
    /\ outcome = "accepted" /\ ~resynced
    /\ energy # num_particles * ECorr(TAILCORR)
    /\ virial # 0

\* C10: the phase reset leaves the positions, the total energy, the total
\* virial and the displacement as they were right before it.
C10_ResetKeepsState ==
    did_reset =>
        /\ rx = before_reset.rx /\ ry = before_reset.ry /\ rz = before_reset.rz
        /\ energy = before_reset.energy
        /\ virial = before_reset.virial
        /\ displacement = before_reset.displacement

\* the reset cleared a window that held steps, accepted moves and sums
C10_Witness ==
    /\ did_reset
    /\ before_reset.step_counter > 1
    /\ before_reset.accept_counter > 0
    /\ before_reset.energy_sum # 0
    /\ before_reset.virial_sum # 0
    /\ step_counter = 0 /\ energy_sum = 0
    /\ energy # 0 /\ virial # 0

TrialStepTaken == pc = "loop" /\ step' = step + 1

\* C11: the displacement controller acts only during the equilibration: a
\* trial step with index >= eq_steps leaves the displacement as it was, and
\* with auto-scaling off no step is a scaling checkpoint: the displacement
\* never changes and the window counters move only by the step's own
\* accounting and the phase reset.
C11_ControllerOnlyInEquilibration ==
    [][TrialStepTaken =>
          /\ step >= eq_steps =>
                 (displacement' = displacement /\ ~did_scale')
          /\ ~SCALE =>
                 /\ displacement' = displacement /\ ~did_scale'
                 /\ step_counter' =
                        IF did_reset' THEN 0 ELSE step_counter + 1
                 /\ accept_counter' =
                        IF did_reset' THEN 0
                        ELSE IF outcome' = "accepted"
                             THEN accept_counter + 1 ELSE accept_counter]_vars

\* a sampling step on the scaling interval was executed with auto-scaling
\* on, after the controller had changed the displacement in equilibration
C11_Witness ==
    /\ SCALE /\ outcome # "none"
    /\ LastStep > eq_steps /\ LastStep % SCALE_INTERVAL = 0
    /\ displacement \notin InitDisplacements
    /\ accept_counter > 0 /\ step_counter > accept_counter

\* no pair is within the cutoff and no correction is configured
NonInteracting == cutoff_squared = 0 /\ ~TAILCORR /\ ~SHIFT

\* C12: a proposed move whose energy change is negative or zero is accepted
\* whatever the uniform draw; in a system without interactions the tracked
\* energy and virial are 0 after every step, every proposal is accepted,
\* and with a single particle the accepted counter equals the step counter.
C12_DownhillAlwaysAccepted ==
    /\ (outcome # "none" /\ ~proposal.nan /\ proposal.dE <= 0)
           => outcome = "accepted"
    /\ (NonInteracting /\ pc # "setup") => (energy = 0 /\ virial = 0)
    /\ (NonInteracting /\ outcome # "none" /\ ~proposal.nan)
           => (proposal.dE = 0 /\ outcome = "accepted")
    /\ (NonInteracting /\ num_particles = 1) => accept_counter = step_counter

\* two free particles: the second step of a window was accepted with
\* dE = 0, and so was the first
C12_Witness ==
    /\ NonInteracting /\ num_particles = 2
    /\ outcome = "accepted" /\ proposal.dE = 0
    /\ step_counter = 2 /\ accept_counter = 2

\* C13: every separation returned by the per-axis routine is the signed
\* minimum image: congruent to x1 - x2 modulo the box length and within
\* [-length/2, length/2).
C13_SignedMinimumImage ==
    \A c \in separations :
        /\ (c.d - (c.x1 - c.x2)) % c.length = 0
        /\ -c.length <= 2 * c.d
        /\ 2 * c.d < c.length

HistorySum(field, n) ==
    SumOver([k \in 1 .. n |-> history[k][field]], 1 .. n)

\* C14: the frame count and the two sums are cumulative over every frame
\* analyzed; a line of averages has been printed exactly at every positive
\* multiple of REPORT_INTERVAL frames, and it holds the sums over all the
\* frames up to it divided by their number, with tension = (Lz/2)(zz - xy).
C14_CumulativeRunningAverage ==
    /\ frame_count = Len(history)
    /\ p_xy_sum = HistorySum("p_xy", frame_count)
    /\ p_z_sum = HistorySum("p_zz", frame_count)
    /\ reports = frame_count \div REPORT_INTERVAL
    /\ report.shown = (frame_count >= REPORT_INTERVAL)
    /\ report.shown =>
          /\ report.frame = REPORT_INTERVAL * (frame_count \div REPORT_INTERVAL)
          /\ report.xy = Rat(HistorySum("p_xy", report.frame), report.frame)
          /\ report.zz = Rat(HistorySum("p_zz", report.frame), report.frame)
          /\ report.tension =
                 RatMul([n |-> frame.box_z, d |-> 2],
                        RatSub(report.zz, report.xy))

\* the second line of averages was printed, over frames of differing
\* pressures, and the analysis went on after it
C14_Witness ==
    /\ reports = 2 /\ frame_count > 2 * REPORT_INTERVAL
    /\ report.frame = 2 * REPORT_INTERVAL
    /\ history[1] # history[2]
    /\ report.xy.n # 0 /\ report.zz # report.xy

\* C15: a scaling checkpoint whose window holds no accepted move leaves a
\* finite, strictly positive displacement that is not larger than before,
\* and resets the window counters as every checkpoint does.
C15_ZeroAcceptedCheckpoint ==
    [][(TrialStepTaken /\ did_scale' /\ scale_window'.accepted = 0) =>
          /\ displacement'.d # 0
          /\ RatLess(RatInt(0), displacement')
          /\ RatLeq(displacement', displacement)
          /\ step_counter' = 0 /\ accept_counter' = 0 /\ energy_sum' = 0]_vars

\* a checkpoint was taken on a full window of rejected moves
C15_Witness ==
    /\ did_scale /\ outcome = "rejected"
    /\ scale_window.accepted = 0 /\ scale_window.tries = SCALE_INTERVAL
    /\ SCALE_INTERVAL > 1
    /\ step_counter = 0 /\ RatLess(displacement, MaxDisplacement)

\* C17: every scaling decision is taken on a window of exactly
\* SCALE_INTERVAL trial steps.
C17_FullScalingWindow ==
    did_scale => scale_window.tries = SCALE_INTERVAL

FrameIndex == 1 .. Len(frames)

\* C16: without the record-equilibration flag no frame is written before
\* the loop or at a trial step of the equilibration; with a positive output
\* interval k the loop writes frames only at steps that are multiples of k;
\* the run ends with one final frame, written after the loop.
C16_FramesOnlyWhenDue ==
    /\ ~output_minim =>
          \A k \in FrameIndex :
              /\ frames[k].kind # "first"
              /\ frames[k].kind = "loop" => frames[k].at >= eq_steps
    /\ output_interval > 0 =>
          \A k \in FrameIndex :
              frames[k].kind = "loop" => frames[k].at % output_interval = 0
    /\ \A k \in FrameIndex :
          frames[k].kind = "final" => (pc = "done" /\ k = Len(frames))
    /\ pc = "done" =>
          /\ Len(frames) >= 1
          /\ frames[Len(frames)] = [kind |-> "final", at |-> eq_steps + sample_steps]

\* a finished run without the flag, interval 2, that equilibrated over a
\* multiple of the interval and wrote a frame in the sampling phase
C16_Witness ==
    /\ pc = "done" /\ ~output_minim /\ output_interval = 2
    /\ eq_steps >= 3
    /\ Len(frames) = 2 /\ frames[1].kind = "loop"

\* C18: the run ends, and it ends after exactly eq_steps + sample_steps
\* trial steps; the phase reset happens at most once, and no step after the
\* first step of the sampling phase resets the window or scales.
C18_HaltsAndPhaseMonotone ==
    /\ <>(pc = "done")
    /\ [](step <= eq_steps + sample_steps)
    /\ [](pc = "done" => step = eq_steps + sample_steps)
    /\ [](resets <= 1)
    /\ [][(TrialStepTaken /\ step > eq_steps) =>
             (~did_reset' /\ ~did_scale' /\ displacement' = displacement)]_vars

\* a run with scaling on ended after its phase reset and two more steps,
\* the last of them on the scaling interval
C18_Witness ==
    /\ pc = "done" /\ SCALE /\ resets = 1
    /\ eq_steps >= 1 /\ sample_steps = 3
    /\ step = eq_steps + sample_steps
    /\ LastStep % SCALE_INTERVAL = 0
    /\ step_counter = 2

\* C19: every trial step, accepted or rejected, counts as one step of the
\* window and adds the tracked energy and virial (unchanged by a rejected
\* move) to the running sums before any reset of that step; the accepted
\* counter never exceeds the step counter.
C19_EveryStepAccumulates ==
    /\ [](accept_counter <= step_counter)
    /\ [][TrialStepTaken =>
             /\ outcome' = "rejected" => (energy' = energy /\ virial' = virial)
             /\ (~did_reset' /\ ~did_scale') =>
                    /\ step_counter' = step_counter + 1
                    /\ energy_sum' = energy_sum + energy'
                    /\ virial_sum' = virial_sum + virial'
             /\ did_reset' =>
                    /\ before_reset'.step_counter = step_counter + 1
                    /\ before_reset'.energy_sum = energy_sum + energy'
                    /\ before_reset'.virial_sum = virial_sum + virial'
             /\ did_scale' =>
                    /\ scale_window'.tries = step_counter + 1
                    /\ virial_sum' = virial_sum + virial']_vars

\* a rejected move was accumulated in a window that holds an accepted one
C19_Witness ==
    /\ outcome = "rejected" /\ ~did_reset /\ ~did_scale
    /\ step_counter = 2 /\ accept_counter = 1
    /\ energy # 0 /\ virial # 0
    /\ energy_sum = 2 * energy /\ virial_sum = 2 * virial

====
